---- MODULE Spec2Model ----
(***************************************************************************)
(* Service error-normalization layer of the React reference project:       *)
(* the decorators @HandleError / @ServiceErrorHandler / @CustomErrorMessage *)
(* (errorHandler.decorator) and the higher-order wrappers withErrorHandling *)
(* / createServiceWrapper / handleErrors (serviceErrorHandler.ts).          *)
(*                                                                         *)
(* A run is one call chain, told from the inside out: the innermost        *)
(* original method settles (resolves or throws), then each enclosing       *)
(* wrapped call runs its try/await/catch on the outcome it awaited.        *)
(***************************************************************************)
EXTENDS Integers, Sequences, FiniteSets, Bags, TLC

\* Largest number of wrapped calls nested in one call chain.
MaxDepth == 2

(***************************************************************************)
(* JavaScript values.  Every value is a record tagged by t; a template     *)
(* literal is the sequence of its parts.                                   *)
(***************************************************************************)
Str(s) == [t |-> "string", s |-> s]
Num(n) == [t |-> "number", n |-> n]
Null == [t |-> "null"]
Undefined == [t |-> "undefined"]
Obj(f) == [t |-> "object", fields |-> f]
Arr(q) == [t |-> "array", elems |-> q]
EmptyFields == [k \in {} |-> Null]

\* typeof v === 'object' (arrays and null included, as in JavaScript)
TypeofObject(v) == v.t \in {"object", "array", "null"}

\* The own enumerable properties an object spread {...v} copies.
OwnFields(v) ==
  IF v.t = "object" THEN v.fields
  ELSE IF v.t = "array" THEN [k \in {ToString(i - 1) : i \in 1..Len(v.elems)} |->
                                 v.elems[CHOOSE i \in 1..Len(v.elems) : ToString(i - 1) = k]]
  ELSE EmptyFields

\* { ...a, ...b }
Spread(a, b) ==
  [k \in DOMAIN a \cup DOMAIN b |-> IF k \in DOMAIN b THEN b[k] ELSE a[k]]

(***************************************************************************)
(* ApiError and the other things an operation can throw.                   *)
(***************************************************************************)
ApiError(message, statusCode, code, details) ==
  [t |-> "ApiError", message |-> message, statusCode |-> statusCode,
   code |-> code, details |-> details]
ZodError(errors) == [t |-> "ZodError", errors |-> errors]
Error(message) == [t |-> "Error", message |-> message]

InstanceofApiError(e) == e.t = "ApiError"
InstanceofZodError(e) == e.t = "ZodError"
\* ApiError and ZodError both extend Error
InstanceofError(e) == e.t \in {"Error", "ApiError", "ZodError"}

(***************************************************************************)
(* sanitizeArgs.  sanitizeArg returns the caller's argument as it is after *)
(* the call (arg) together with the value put into the result (result):    *)
(* the code writes the marker into the spread copy, never into arg.        *)
(***************************************************************************)
sensitiveFields == {"password", "token", "secret", "apiKey", "authorization"}
REDACTED == Str("[REDACTED]")

\* variant: "apiKey" is missing from the list of sensitive fields
Redact_SkipsApiKey(f) ==
  [k \in DOMAIN f |-> IF k \in sensitiveFields \ {"apiKey"} THEN REDACTED ELSE f[k]]

Redact(f) == [k \in DOMAIN f |-> IF k \in sensitiveFields THEN REDACTED ELSE f[k]]

\* variant: no spread copy, the marker is written into the caller's object
sanitizeArg_InPlace(arg) ==
  IF TypeofObject(arg) /\ arg # Null
    THEN LET sanitized == IF arg.t = "object" THEN Obj(Redact(arg.fields)) ELSE arg
         IN [arg |-> sanitized, result |-> sanitized]
    ELSE [arg |-> arg, result |-> arg]

sanitizeArg(arg) ==
  IF TypeofObject(arg) /\ arg # Null
    THEN [arg |-> arg, result |-> Obj(Redact(OwnFields(arg)))]
    ELSE [arg |-> arg, result |-> arg]

sanitizeArgs(args) ==
  [arg |-> [i \in 1..Len(args) |-> sanitizeArg(args[i]).arg],
   result |-> [i \in 1..Len(args) |-> sanitizeArg(args[i]).result]]

(***************************************************************************)
(* handleServiceError of the decorator module and of serviceErrorHandler.ts *)
(* context is the fields of the context object.                            *)
(***************************************************************************)
OperationOf(context) ==
  IF "operation" \in DOMAIN context /\ context["operation"].t = "string"
    THEN context["operation"].s ELSE "undefined"

\* variant: the test for Error comes before the test for ZodError
handleServiceError_ErrorFirst(error, context) ==
  IF InstanceofApiError(error)
    THEN ApiError(<<"Failed in ", OperationOf(context), ": ">> \o error.message,
                  error.statusCode, error.code,
                  Obj(Spread(OwnFields(error.details), context)))
  ELSE IF InstanceofError(error)
    THEN ApiError(<<"Error in ", OperationOf(context), ": ">> \o
                    (IF error.t = "Error" THEN error.message ELSE <<"zod">>),
                  0, "UNKNOWN_ERROR", Obj(context))
  ELSE ApiError(<<"Unknown error in ", OperationOf(context)>>, 0, "UNKNOWN_ERROR",
                Obj(Spread([k \in {"error"} |-> error], context)))

\* variant: re-wrapping replaces the details by the new context instead of merging
handleServiceError_ReplacesDetails(error, context) ==
  IF InstanceofApiError(error)
    THEN ApiError(<<"Failed in ", OperationOf(context), ": ">> \o error.message,
                  error.statusCode, error.code, Obj(context))
  ELSE IF InstanceofZodError(error)
    THEN ApiError(<<"Validation error in ", OperationOf(context)>>, 0, "VALIDATION_ERROR",
                  Obj(Spread([k \in {"zodError"} |-> Arr(error.errors)], context)))
  ELSE IF InstanceofError(error)
    THEN ApiError(<<"Error in ", OperationOf(context), ": ">> \o error.message,
                  0, "UNKNOWN_ERROR", Obj(context))
  ELSE ApiError(<<"Unknown error in ", OperationOf(context)>>, 0, "UNKNOWN_ERROR",
                Obj(Spread([k \in {"error"} |-> error], context)))

handleServiceError(error, context) ==
  IF InstanceofApiError(error)
    THEN ApiError(<<"Failed in ", OperationOf(context), ": ">> \o error.message,
                  error.statusCode, error.code,
                  Obj(Spread(OwnFields(error.details), context)))
  ELSE IF InstanceofZodError(error)
    THEN ApiError(<<"Validation error in ", OperationOf(context)>>, 0, "VALIDATION_ERROR",
                  Obj(Spread([k \in {"zodError"} |-> Arr(error.errors)], context)))
  ELSE IF InstanceofError(error)
    THEN ApiError(<<"Error in ", OperationOf(context), ": ">> \o error.message,
                  0, "UNKNOWN_ERROR", Obj(context))
  ELSE ApiError(<<"Unknown error in ", OperationOf(context)>>, 0, "UNKNOWN_ERROR",
                Obj(Spread([k \in {"error"} |-> error], context)))

utilsHandleServiceError(error, context) ==
  IF InstanceofApiError(error)
    THEN ApiError(<<"Failed to ", OperationOf(context), ": ">> \o error.message,
                  error.statusCode, error.code,
                  Obj(Spread(OwnFields(error.details), context)))
  ELSE IF InstanceofZodError(error)
    THEN ApiError(<<"Validation error in ", OperationOf(context)>>, 0, "VALIDATION_ERROR",
                  Obj(Spread([k \in {"zodError"} |-> Arr(error.errors)], context)))
  ELSE IF InstanceofError(error)
    THEN ApiError(<<"Error in ", OperationOf(context), ": ">> \o error.message,
                  0, "UNKNOWN_ERROR", Obj(context))
  ELSE ApiError(<<"Unknown error in ", OperationOf(context)>>, 0, "UNKNOWN_ERROR",
                Obj(Spread([k \in {"error"} |-> error], context)))

(***************************************************************************)
(* handleApiError: what the response interceptor rejects with.  An axios   *)
(* failure has an optional response [status, data], a request flag and a   *)
(* message; data is Undefined or carries message, code, details.           *)
(***************************************************************************)
DataField(data, name, default) ==
  IF data.t = "object" /\ name \in DOMAIN data.fields THEN data.fields[name] ELSE default

handleApiError(error) ==
  IF error.response.t = "object"
    THEN LET data == DataField(error.response, "data", Undefined)
             message == DataField(data, "message", Str("API request failed"))
             code == DataField(data, "code", Str("UNKNOWN_ERROR"))
         IN ApiError(<<message.s>>, error.response.fields["status"].n, code.s,
                     DataField(data, "details", Undefined))
  ELSE IF error.request
    THEN ApiError(<<"Network error - no response received">>, 0, "NETWORK_ERROR", Undefined)
  ELSE ApiError(<<IF error.message # "" THEN error.message ELSE "Unknown error occurred">>,
                0, "UNKNOWN_ERROR", Undefined)

(***************************************************************************)
(* Inputs.                                                                 *)
(***************************************************************************)
\* the decorated methods: target.constructor.name and propertyKey
Targets ==
  { [service |-> "ProductService", method |-> "getProducts"],
    [service |-> "AuthService", method |-> "login"] }

\* the operation argument of @HandleError(operation?): "" is the omitted one
OperationOverrides == {"", "customOperation"}

\* operation names handed to withErrorHandling / handleErrors
OperationNames == {"ProductService.getProducts", "login"}

Credentials(field) ==
  Obj([k \in {"username", field} |-> IF k = field THEN Str("secret123") ELSE Str("a")])

ArgValues ==
  { Str("books"), Num(42), Null, Arr(<<Str("p1"), Str("p2")>>),
    Obj([k \in {"category"} |-> Str("books")]),
    Obj([k \in {"credentials"} |-> Obj([j \in {"password"} |-> Str("secret123")])]) }
  \cup { Credentials(field) : field \in sensitiveFields }

ArgLists ==
  {<<>>} \cup { <<v>> : v \in ArgValues }
         \cup { <<Str("p1"), v>> : v \in {Credentials("token")} }

\* argument lists for the wrappers that never look into their arguments
PlainArgLists ==
  { <<>>, <<Str("books")>>, <<Credentials("password")>> }

AdditionalContexts ==
  { Undefined,
    Obj([k \in {"filters"} |-> Obj([j \in {"category"} |-> Str("books")])]),
    Obj([k \in {"error"} |-> Str("ctx")]) }

ResolvedValues ==
  { Arr(<<Str("p1")>>), Obj([k \in {"token"} |-> Str("jwt")]) }

Response(status, data) ==
  Obj([k \in {"status", "data"} |-> IF k = "status" THEN Num(status) ELSE data])

AxiosErrors ==
  { [response |-> Response(404, Obj([k \in {"message", "code"} |->
                    IF k = "message" THEN Str("Product not found") ELSE Str("NOT_FOUND")])),
     request |-> TRUE, message |-> "Request failed with status code 404"],
    [response |-> Response(400, Obj([k \in {"message", "details"} |->
                    IF k = "message" THEN Str("Invalid product")
                    ELSE Obj([j \in {"field"} |-> Str("price")])])),
     request |-> TRUE, message |-> "Request failed with status code 400"],
    [response |-> Response(500, Undefined),
     request |-> TRUE, message |-> "Request failed with status code 500"],
    [response |-> Undefined, request |-> TRUE, message |-> "Network Error"],
    [response |-> Undefined, request |-> FALSE, message |-> "canceled"] }

Issue(path, message) == Obj([k \in {"path", "message"} |->
                              IF k = "path" THEN Str(path) ELSE Str(message)])

ZodIssueLists ==
  { <<Issue("price", "expected positive number")>>,
    <<Issue("username", "Required"), Issue("password", "Required")>> }

\* values a method body throws that are neither ApiError nor ZodError
OtherThrown ==
  { Error(<<"timeout">>), Str("boom"), Null,
    Obj([k \in {"reason"} |-> Str("aborted")]) }

(***************************************************************************)
(* The wrappers.  awaited is what `await originalMethod.apply(this, args)` *)
(* (or `await fn(...args)`) settled with.  Each wrapper yields the outcome *)
(* of the wrapped call, the caller's argument objects as they are after    *)
(* the call, and the number of ApiErrors it constructed.                   *)
(***************************************************************************)
Resolved(value) == [status |-> "resolved", value |-> value, error |-> Undefined]
Rejected(error) == [status |-> "rejected", value |-> Undefined, error |-> error]
Pending == [status |-> "pending", value |-> Undefined, error |-> Undefined]

\* variant: the default name is the method name alone
OperationName_MethodOnly(target, operation) ==
  IF operation # "" THEN operation ELSE target.method

\* operation || `${target.constructor.name}.${propertyKey}`
OperationName(target, operation) ==
  IF operation # "" THEN operation ELSE target.service \o "." \o target.method

DecoratorContext(operationName, target, sanitized) ==
  [k \in {"operation", "method", "service", "args"} |->
     CASE k = "operation" -> Str(operationName)
       [] k = "method" -> Str(target.method)
       [] k = "service" -> Str(target.service)
       [] k = "args" -> Arr(sanitized)]

\* variant: `return result` is missing, the wrapped call resolves to undefined
HandleError_DropsResult(target, operation, args, awaited) ==
  IF awaited.status = "resolved"
    THEN [outcome |-> Resolved(Undefined), callerArgs |-> args, constructed |-> 0]
    ELSE LET sanitized == sanitizeArgs(args)
         IN [outcome |-> Rejected(handleServiceError(awaited.error,
                           DecoratorContext(OperationName(target, operation), target,
                                            sanitized.result))),
             callerArgs |-> sanitized.arg, constructed |-> 1]

HandleError(target, operation, args, awaited) ==
  IF awaited.status = "resolved"
    THEN [outcome |-> Resolved(awaited.value), callerArgs |-> args, constructed |-> 0]
    ELSE LET sanitized == sanitizeArgs(args)
         IN [outcome |-> Rejected(handleServiceError(awaited.error,
                           DecoratorContext(OperationName(target, operation), target,
                                            sanitized.result))),
             callerArgs |-> sanitized.arg, constructed |-> 1]

\* the getMessage callbacks of the documentation's examples
MessageCallbacks == {"custom", "operation"}

getMessage(callback, error, context) ==
  IF callback = "custom" THEN <<"Custom error: ">> \o error.message
  ELSE <<"Request failed in ", OperationOf(context)>>

CustomErrorMessage(target, callback, args, awaited) ==
  IF awaited.status = "resolved"
    THEN [outcome |-> Resolved(awaited.value), callerArgs |-> args, constructed |-> 0]
    ELSE LET sanitized == sanitizeArgs(args)
             context == DecoratorContext(OperationName(target, ""), target, sanitized.result)
             error == awaited.error
         IN [outcome |-> Rejected(IF InstanceofApiError(error)
                                    THEN [error EXCEPT !.message = getMessage(callback, error, context)]
                                    ELSE error),
             callerArgs |-> sanitized.arg, constructed |-> 0]

withErrorHandling(operation, args, awaited) ==
  IF awaited.status = "resolved"
    THEN [outcome |-> Resolved(awaited.value), callerArgs |-> args, constructed |-> 0]
    ELSE [outcome |-> Rejected(utilsHandleServiceError(awaited.error,
                        [k \in {"operation", "args"} |->
                           IF k = "operation" THEN Str(operation) ELSE Arr(args)])),
          callerArgs |-> args, constructed |-> 1]

handleErrors(operation, additionalContext, awaited) ==
  IF awaited.status = "resolved"
    THEN [outcome |-> Resolved(awaited.value), callerArgs |-> <<>>, constructed |-> 0]
    ELSE [outcome |-> Rejected(utilsHandleServiceError(awaited.error,
                        Spread([k \in {"operation"} |-> Str(operation)],
                               OwnFields(additionalContext)))),
          callerArgs |-> <<>>, constructed |-> 1]

(***************************************************************************)
(* State.                                                                  *)
(***************************************************************************)
VARIABLES
  outcome,      \* what the innermost call still being awaited settled with
  depth,        \* wrapped calls of the chain that have settled
  frame,        \* the wrapped call that settled last: wrapper, names, args
  callerArgs,   \* that call's argument objects as the caller sees them now
  constructed,  \* ApiErrors constructed by wrappers in this chain
  underlying    \* value the innermost original method resolved with

wrapperVars == <<outcome, depth, frame, callerArgs, constructed, underlying>>

\* A service class under decoration (errorHandler.decorator, ServiceErrorHandler)
VARIABLES
  members,      \* the methods of the class as written: name -> descriptor
  layers,       \* name -> operation arguments of the HandleError wrappers applied, innermost first
  decorated,    \* the class decorator has run
  lastCall      \* the last call of a method: what its body did and what the caller got

decoratorVars == <<members, layers, decorated, lastCall>>

\* Calls of one wrapped operation that are in flight together
VARIABLES
  calls,        \* call id -> the invocation's closure (args) and where it stands
  invoked       \* the call ids in the order the calls were made

concVars == <<calls, invoked>>

\* The transport layer of one page: interceptors.ts, the ApiClient, AuthService
VARIABLES
  authToken,     \* interceptors.ts: let authToken
  storage,       \* localStorage 'auth_token'
  location,      \* window.location.href as last assigned
  inflight,      \* the requests sent and not yet answered, a bag of configs
  received,      \* the failure the response interceptor handled last
  rejection,     \* the ApiError the response interceptor rejected with last
  delivered,     \* what the caller of the call completed last got
  lastSet,       \* history: the value authToken was last set to
  unauthorized   \* history: a 401 was received and no non-null token was set since

authVars == <<authToken, storage, location, inflight, received, rejection, delivered,
              lastSet, unauthorized>>

\* The mock products server
VARIABLES
  heap,          \* the product objects: reference -> fields
  products,      \* let products: the references in the array, in order
  now,           \* Date.now()
  served,        \* the number of requests handled
  response,      \* the response sent last
  changed        \* history: the store differed from the loaded data when the last request came

mockVars == <<heap, products, now, served, response, changed>>

\* The auth atom (authStateAtom) on top of the transport layer
VARIABLES
  store,         \* the atom's store: user, token, isAuthenticated, isLoading, error
  noLoginSince   \* history: a logout has completed and no login was started since

atomVars == <<store, noLoginSince>>

\* The notification atom (notificationAtom) and the timers it has set
VARIABLES
  notification,  \* the atom's store: null or { message, type, isVisible }
  timers,        \* the pending setTimeout callbacks: when each is due, which call set it
  time,          \* milliseconds since the atom was created
  shows,         \* history: how many times showNotification was called
  shown,         \* history: which call showed the notification in the store (0: none)
  removal        \* history: the last time the store was set to null, by whom, what was there

notificationVars == <<notification, timers, time, shows, shown, removal>>

vars == <<wrapperVars, decoratorVars, concVars, authVars, mockVars, atomVars,
          notificationVars>>

\* what the actions of one part leave alone
exceptWrapper == <<decoratorVars, concVars, authVars, mockVars, atomVars, notificationVars>>
exceptDecorator == <<wrapperVars, concVars, authVars, mockVars, atomVars, notificationVars>>
exceptConc == <<wrapperVars, decoratorVars, authVars, mockVars, atomVars, notificationVars>>
exceptAuth == <<wrapperVars, decoratorVars, concVars, mockVars, atomVars, notificationVars>>
exceptMock == <<wrapperVars, decoratorVars, concVars, authVars, atomVars, notificationVars>>
exceptAtom == <<wrapperVars, decoratorVars, concVars, mockVars, notificationVars>>
exceptNotification ==
  <<wrapperVars, decoratorVars, concVars, authVars, mockVars, atomVars>>

\* additionalContext is what else the wrapper was given: handleErrors' additional
\* context, @CustomErrorMessage's callback, @HandleError's operation argument
Frame(wrapper, operation, target, args, additionalContext) ==
  [wrapper |-> wrapper, operation |-> operation, method |-> target.method,
   service |-> target.service, args |-> args, additionalContext |-> additionalContext]

NoTarget == [service |-> "", method |-> ""]
NoFrame == Frame("none", "", NoTarget, <<>>, Undefined)

WrapperIdle ==
  /\ outcome = Pending
  /\ depth = 0
  /\ frame = NoFrame
  /\ callerArgs = <<>>
  /\ constructed = 0
  /\ underlying = Undefined

NoCall == [member |-> "", body |-> Pending, result |-> Pending]

DecoratorIdle ==
  /\ members = <<>>
  /\ layers = <<>>
  /\ decorated = FALSE
  /\ lastCall = NoCall

CallIds == {1, 2}
NotInvoked == [pc |-> "idle", args |-> <<>>, awaited |-> Pending, outcome |-> Pending]

ConcIdle ==
  /\ calls = [i \in CallIds |-> NotInvoked]
  /\ invoked = <<>>

NoFailure == [response |-> Undefined, request |-> FALSE, message |-> ""]

AuthIdle ==
  /\ authToken = Null
  /\ storage = Null
  /\ location = "/"
  /\ inflight = EmptyBag
  /\ received = NoFailure
  /\ rejection = Undefined
  /\ delivered = Pending
  /\ lastSet = Null
  /\ unauthorized = FALSE

\* a product of products.json; description, inventory and isActive are carried
\* like name and are left out
InitialProduct(id, name, price) ==
  [k \in {"id", "name", "price", "category", "createdAt", "updatedAt"} |->
     CASE k = "id" -> Str(id)
       [] k = "name" -> Str(name)
       [] k = "price" -> Num(price)
       [] k = "category" -> Str("books")
       [] k = "createdAt" -> Str("2024-01-01")
       [] k = "updatedAt" -> Str("2024-01-01")]

\* productsData.products: the array parsed from products.json, as references
productsData == <<1, 2>>
LoadedHeap == [r \in {1, 2} |->
                 IF r = 1 THEN InitialProduct("prod-001", "Atlas", 20)
                 ELSE InitialProduct("prod-002", "Lamp", 35)]

NoResponse == [handler |-> "", status |-> 0, body |-> Undefined]

\* let products = [...productsData.products]
MockIdle ==
  /\ heap = LoadedHeap
  /\ products = productsData
  /\ now = 0
  /\ served = 0
  /\ response = NoResponse
  /\ changed = FALSE

\* the state the atom starts in and logout puts it in
Unauthenticated ==
  [user |-> Null, token |-> Null, isAuthenticated |-> FALSE, isLoading |-> FALSE,
   error |-> Null]

AtomIdle ==
  /\ store = Unauthenticated
  /\ noLoginSince = FALSE

\* nothing was removed from the store yet
NoRemoval == [by |-> "nothing", call |-> 0, removed |-> 0]

NotificationIdle ==
  /\ notification = Null
  /\ timers = {}
  /\ time = 0
  /\ shows = 0
  /\ shown = 0
  /\ removal = NoRemoval

Init ==
  /\ WrapperIdle
  /\ DecoratorIdle
  /\ ConcIdle
  /\ AuthIdle
  /\ MockIdle
  /\ AtomIdle
  /\ NotificationIdle

(***************************************************************************)
(* The innermost original method settles.                                  *)
(***************************************************************************)
\* the method body returns a validated response
OperationResolves(value) ==
  /\ outcome.status = "pending"
  /\ outcome' = Resolved(value)
  /\ underlying' = value
  /\ UNCHANGED <<depth, frame, callerArgs, constructed>>
  /\ UNCHANGED exceptWrapper

\* apiClient call fails: the response interceptor rejects with handleApiError(error)
TransportFails(error) ==
  /\ outcome.status = "pending"
  /\ outcome' = Rejected(handleApiError(error))
  /\ UNCHANGED <<depth, frame, callerArgs, constructed, underlying>>
  /\ UNCHANGED exceptWrapper

\* schema.parse throws
ValidationFails(issues) ==
  /\ outcome.status = "pending"
  /\ outcome' = Rejected(ZodError(issues))
  /\ UNCHANGED <<depth, frame, callerArgs, constructed, underlying>>
  /\ UNCHANGED exceptWrapper

\* the body throws anything else
OperationThrows(value) ==
  /\ outcome.status = "pending"
  /\ outcome' = Rejected(value)
  /\ UNCHANGED <<depth, frame, callerArgs, constructed, underlying>>
  /\ UNCHANGED exceptWrapper

(***************************************************************************)
(* A wrapped call whose awaited original method has settled.               *)
(***************************************************************************)
Settles(r, f) ==
  /\ outcome' = r.outcome
  /\ callerArgs' = r.callerArgs
  /\ constructed' = constructed + r.constructed
  /\ frame' = f
  /\ depth' = depth + 1
  /\ UNCHANGED underlying
  /\ UNCHANGED exceptWrapper

CanWrap == outcome.status # "pending" /\ depth < MaxDepth

HandleErrorCall(target, operation, args) ==
  /\ CanWrap
  /\ Settles(HandleError(target, operation, args, outcome),
             Frame("HandleError", OperationName(target, operation), target, args, Str(operation)))

\* @ServiceErrorHandler(serviceName) on an async method: HandleError(`${serviceName}.${propertyName}`)
ServiceErrorHandlerCall(serviceName, target, args) ==
  /\ CanWrap
  /\ Settles(HandleError(target, serviceName \o "." \o target.method, args, outcome),
             Frame("HandleError", serviceName \o "." \o target.method, target, args,
                   Str(serviceName \o "." \o target.method)))

CustomErrorMessageCall(target, callback, args) ==
  /\ CanWrap
  /\ Settles(CustomErrorMessage(target, callback, args, outcome),
             Frame("CustomErrorMessage", OperationName(target, ""), target, args, Str(callback)))

withErrorHandlingCall(operation, args) ==
  /\ CanWrap
  /\ Settles(withErrorHandling(operation, args, outcome),
             Frame("withErrorHandling", operation, NoTarget, args, Undefined))

\* createServiceWrapper(serviceName)(methodName, fn)
createServiceWrapperCall(serviceName, methodName, args) ==
  /\ CanWrap
  /\ Settles(withErrorHandling(serviceName \o "." \o methodName, args, outcome),
             Frame("withErrorHandling", serviceName \o "." \o methodName, NoTarget, args, Undefined))

handleErrorsCall(operation, additionalContext) ==
  /\ CanWrap
  /\ Settles(handleErrors(operation, additionalContext, outcome),
             Frame("handleErrors", operation, NoTarget, <<>>, additionalContext))

\* the outermost caller takes the result; the next chain starts afresh
Settle ==
  /\ outcome.status # "pending"
  /\ depth > 0
  /\ outcome' = Pending
  /\ depth' = 0
  /\ frame' = NoFrame
  /\ callerArgs' = <<>>
  /\ constructed' = 0
  /\ underlying' = Undefined
  /\ UNCHANGED exceptWrapper

Next ==
  \/ \E value \in ResolvedValues : OperationResolves(value)
  \/ \E error \in AxiosErrors : TransportFails(error)
  \/ \E issues \in ZodIssueLists : ValidationFails(issues)
  \/ \E value \in OtherThrown : OperationThrows(value)
  \/ \E target \in Targets, operation \in OperationOverrides, args \in ArgLists :
       HandleErrorCall(target, operation, args)
  \/ \E target \in Targets, args \in PlainArgLists :
       ServiceErrorHandlerCall(target.service, target, args)
  \/ \E target \in Targets, callback \in MessageCallbacks, args \in PlainArgLists :
       CustomErrorMessageCall(target, callback, args)
  \/ \E operation \in OperationNames, args \in PlainArgLists :
       withErrorHandlingCall(operation, args)
  \/ \E target \in Targets, args \in PlainArgLists :
       createServiceWrapperCall(target.service, target.method, args)
  \/ \E operation \in OperationNames, additionalContext \in AdditionalContexts :
       handleErrorsCall(operation, additionalContext)
  \/ Settle

Spec == Init /\ [][Next]_vars

(***************************************************************************)
(* Decorating a service class.  A method as written is described by what   *)
(* ServiceErrorHandler looks at: whether it is an async function, and       *)
(* whether its source text contains "return" and "Promise"; promise says   *)
(* whether a call of it yields a promise at all.                           *)
(***************************************************************************)
MemberNames == {"login", "getStoredToken"}
ClassName == "AuthService"

MemberDescriptors ==
  { [async |-> TRUE, promise |-> TRUE, text |-> {"return"}] }
  \cup { [async |-> FALSE, promise |-> TRUE, text |-> t] :
           t \in { {"return"}, {"return", "Promise"} } }
  \cup { [async |-> FALSE, promise |-> FALSE, text |-> t] : t \in SUBSET {"return", "Promise"} }

Returned(value) == [status |-> "returned", value |-> value, error |-> Undefined]
Thrown(error) == [status |-> "thrown", value |-> Undefined, error |-> error]

\* what a call of the method body does
BodyOutcomes(descriptor) ==
  IF descriptor.promise
    THEN { Resolved(Str("jwt")), Rejected(Error(<<"timeout">>)) }
    ELSE { Returned(Str("jwt")), Thrown(Error(<<"timeout">>)) }

\* descriptor.value as the class decorator finds it: a method already wrapped by
\* @HandleError is HandleError's `async function (...args)`
CurrentFunction(m) ==
  IF layers[m] # <<>>
    THEN [constructorName |-> "AsyncFunction", text |-> {"return"}]
    ELSE [constructorName |-> IF members[m].async THEN "AsyncFunction" ELSE "Function",
          text |-> members[m].text]

\* method.constructor.name === 'AsyncFunction' ||
\*   (method.toString().includes('return') && method.toString().includes('Promise'))
WrapsMethod(method) ==
  \/ method.constructorName = "AsyncFunction"
  \/ ("return" \in method.text /\ "Promise" \in method.text)

\* `await originalMethod.apply(this, args)` inside the try block
Awaited(o) ==
  IF o.status \in {"returned", "resolved"} THEN Resolved(o.value) ELSE Rejected(o.error)

RECURSIVE ThroughLayers(_, _, _, _)
ThroughLayers(ls, m, args, body) ==
  IF ls = <<>> THEN body
  ELSE HandleError([service |-> ClassName, method |-> m], ls[Len(ls)].operation, args,
                   Awaited(ThroughLayers(SubSeq(ls, 1, Len(ls) - 1), m, args, body))).outcome

\* the class body is evaluated
DefineClass(ms) ==
  /\ members = <<>>
  /\ members' = ms
  /\ layers' = [m \in MemberNames |-> <<>>]
  /\ UNCHANGED <<decorated, lastCall>>
  /\ UNCHANGED exceptDecorator

\* @HandleError(operation) on method m
ApplyHandleError(m, operation) ==
  /\ members # <<>>
  /\ ~decorated
  /\ layers[m] = <<>>
  /\ layers' = [layers EXCEPT ![m] =
                  Append(@, [by |-> "HandleError",
                             operation |-> OperationName([service |-> ClassName, method |-> m],
                                                         operation)])]
  /\ UNCHANGED <<members, decorated, lastCall>>
  /\ UNCHANGED exceptDecorator

\* @ServiceErrorHandler(serviceName) on the class
ApplyServiceErrorHandler(serviceName) ==
  /\ members # <<>>
  /\ ~decorated
  /\ layers' = [m \in MemberNames |->
                  IF WrapsMethod(CurrentFunction(m))
                    THEN Append(layers[m], [by |-> "ServiceErrorHandler",
                                            operation |-> serviceName \o "." \o m])
                    ELSE layers[m]]
  /\ decorated' = TRUE
  /\ UNCHANGED <<members, lastCall>>
  /\ UNCHANGED exceptDecorator

\* service.m(...args) on an instance of the decorated class
CallMember(m, args, body) ==
  /\ decorated
  /\ body \in BodyOutcomes(members[m])
  /\ lastCall' = [member |-> m, body |-> body,
                  result |-> ThroughLayers(layers[m], m, args, body)]
  /\ UNCHANGED <<members, layers, decorated>>
  /\ UNCHANGED exceptDecorator

DecoratorInit ==
  /\ WrapperIdle
  /\ DecoratorIdle
  /\ ConcIdle
  /\ AuthIdle
  /\ MockIdle
  /\ AtomIdle
  /\ NotificationIdle

DecoratorNext ==
  \/ \E ms \in [MemberNames -> MemberDescriptors] : DefineClass(ms)
  \/ \E m \in MemberNames, operation \in OperationOverrides : ApplyHandleError(m, operation)
  \/ ApplyServiceErrorHandler(ClassName)
  \/ \E m \in MemberNames, args \in PlainArgLists,
        body \in {Resolved(Str("jwt")), Rejected(Error(<<"timeout">>)),
                  Returned(Str("jwt")), Thrown(Error(<<"timeout">>))} :
       CallMember(m, args, body)

DecoratorSpec == DecoratorInit /\ [][DecoratorNext]_vars

(***************************************************************************)
(* Calls in flight together.  A call of the wrapped method runs up to      *)
(* `await originalMethod.apply(this, args)`, the underlying promise        *)
(* settles some time later, and the rest of the wrapper runs after that;   *)
(* the steps of different calls interleave freely.                         *)
(***************************************************************************)
ConcTarget == [service |-> "ProductService", method |-> "getProductById"]
ConcArgLists == { <<Str("p1")>>, <<Str("p2")>>, <<Credentials("password")>> }
ConcSettlements ==
  { Resolved(Str(v)) : v \in {"r1", "r2"} }
  \cup { Rejected(Error(<<m>>)) : m \in {"e1", "e2"} }

\* variant: the arguments are kept in one slot shared by all invocations
CapturedArgs_Shared(i) == calls[invoked[Len(invoked)]].args

\* `...args` of the invocation's own `async function (...args: any[])`
CapturedArgs(i) == calls[i].args

\* service.method(...args): the wrapper starts and suspends at the await
Invoke(i, args) ==
  /\ calls[i].pc = "idle"
  /\ \A j \in CallIds \ {i} : calls[j].pc # "idle" => calls[j].args # args
  /\ calls' = [calls EXCEPT ![i] = [@ EXCEPT !.pc = "awaiting", !.args = args]]
  /\ invoked' = Append(invoked, i)
  /\ UNCHANGED exceptConc

\* the promise of the original method settles
UnderlyingSettles(i, r) ==
  /\ calls[i].pc = "awaiting"
  /\ calls' = [calls EXCEPT ![i] = [@ EXCEPT !.pc = "resumable", !.awaited = r]]
  /\ UNCHANGED invoked
  /\ UNCHANGED exceptConc

\* the wrapper continues after the await: `return result` or the catch block
Resume(i) ==
  /\ calls[i].pc = "resumable"
  /\ calls' = [calls EXCEPT ![i] =
                 [@ EXCEPT !.pc = "done",
                           !.outcome = HandleError(ConcTarget, "", CapturedArgs(i),
                                                   calls[i].awaited).outcome]]
  /\ UNCHANGED invoked
  /\ UNCHANGED exceptConc

ConcInit ==
  /\ WrapperIdle
  /\ DecoratorIdle
  /\ ConcIdle
  /\ AuthIdle
  /\ MockIdle
  /\ AtomIdle
  /\ NotificationIdle

ConcNext ==
  \/ \E i \in CallIds, args \in ConcArgLists : Invoke(i, args)
  \/ \E i \in CallIds, r \in ConcSettlements : UnderlyingSettles(i, r)
  \/ \E i \in CallIds : Resume(i)

ConcSpec == ConcInit /\ [][ConcNext]_vars

(***************************************************************************)
(* The transport layer.  A request passes the request interceptor when it  *)
(* is sent; its answer comes some time later and passes the response       *)
(* interceptor; answers come in any order.                                 *)
(***************************************************************************)
MaxInFlight == 2

TokenStrings == {"", "t1", "t2"}
Tokens == {Null} \cup { Str(t) : t \in TokenStrings }

\* `authToken &&`
Truthy(token) == token.t = "string" /\ token.s # ""

Status(error) ==
  IF error.response.t = "object" THEN error.response.fields["status"].n ELSE 0

Unauthorized ==
  [response |-> Response(401, Obj([k \in {"message"} |-> Str("Unauthorized")])),
   request |-> TRUE, message |-> "Request failed with status code 401"]

TransportFailures ==
  { e \in AxiosErrors : Status(e) # 400 } \cup {Unauthorized}

\* variant: passing null leaves the token as it is
setAuthToken_KeepsOnNull(token) == IF token = Null THEN authToken ELSE token

\* setAuthToken: the value authToken has after the call
setAuthToken(token) == token

Config(kind, headers) == [kind |-> kind, headers |-> headers, authorization |-> Undefined]

\* the request interceptor, up to the X-Request-ID line
requestInterceptor(config) ==
  IF Truthy(authToken) /\ config.headers
    THEN [config EXCEPT !.authorization = Str("Bearer " \o authToken.s)]
    ELSE config

\* variant: a 401 leaves the in-memory token in place
responseInterceptor_KeepsToken(error) ==
  [authToken |-> authToken,
   storage |-> IF Status(error) = 401 THEN Null ELSE storage,
   location |-> IF Status(error) = 401 THEN "/login" ELSE location,
   rejection |-> handleApiError(error)]

\* the response interceptor's error handler: what it leaves behind and rejects with
responseInterceptor(error) ==
  [authToken |-> IF Status(error) = 401 THEN Null ELSE authToken,
   storage |-> IF Status(error) = 401 THEN Null ELSE storage,
   location |-> IF Status(error) = 401 THEN "/login" ELSE location,
   rejection |-> handleApiError(error)]

\* AuthService.login carries @HandleError() under @ServiceErrorHandler('AuthService')
LoginLayers ==
  << [by |-> "HandleError", operation |-> "AuthService.login"],
     [by |-> "ServiceErrorHandler", operation |-> "AuthService.login"] >>

LoginResponse(token) == Obj([k \in {"token"} |-> token])

\* what the server answers: a failure, or a body
Answers ==
  { [ok |-> FALSE, error |-> e, data |-> Undefined] : e \in TransportFailures }
  \cup { [ok |-> TRUE, error |-> NoFailure, data |-> d] :
           d \in { LoginResponse(Str(t)) : t \in {"", "t1"} } \cup { Obj(EmptyFields) } }

\* the configs axios can have sent
Requests ==
  { [kind |-> k, headers |-> TRUE, authorization |-> a] :
      k \in {"get", "login"},
      a \in {Undefined} \cup { Str("Bearer " \o t) : t \in TokenStrings \ {""} } }

\* a request leaves: the request interceptor runs, then axios sends the config.
\* Without config.headers the X-Request-ID line throws and nothing is sent.
Send(config, args) ==
  IF config.headers
    THEN /\ inflight' = inflight (+) SetToBag({requestInterceptor(config)})
         /\ UNCHANGED delivered
    ELSE /\ delivered' =
              IF config.kind = "login"
                THEN ThroughLayers(LoginLayers, "login", args, Rejected(Error(<<"TypeError">>)))
                ELSE Rejected(Error(<<"TypeError">>))
         /\ UNCHANGED inflight

\* setAuthToken(token) called by the application
SetAuthTokenCall(token) ==
  /\ authToken' = setAuthToken(token)
  /\ lastSet' = token
  /\ unauthorized' = (unauthorized /\ token = Null)
  /\ UNCHANGED <<storage, location, inflight, received, rejection, delivered>>
  /\ UNCHANGED exceptAuth

\* apiClient.get(url, config)
GetCall(headers) ==
  /\ BagCardinality(inflight) < MaxInFlight
  /\ Send(Config("get", headers), <<>>)
  /\ UNCHANGED <<authToken, storage, location, received, rejection, lastSet, unauthorized>>
  /\ UNCHANGED exceptAuth

\* authService.login(credentials): the schema check, then apiClient.post
LoginCall(valid, headers) ==
  /\ BagCardinality(inflight) < MaxInFlight
  /\ IF valid
       THEN Send(Config("login", headers), <<Credentials("password")>>)
       ELSE /\ delivered' = ThroughLayers(LoginLayers, "login", <<Obj(EmptyFields)>>,
                              Rejected(ZodError(<<Issue("username", "Required")>>)))
            /\ UNCHANGED inflight
  /\ UNCHANGED <<authToken, storage, location, received, rejection, lastSet, unauthorized>>
  /\ UNCHANGED exceptAuth

\* authService.logout(): clearToken(); setAuthToken(null)
LogoutCall ==
  /\ storage' = Null
  /\ authToken' = setAuthToken(Null)
  /\ lastSet' = Null
  /\ delivered' = Resolved(Undefined)
  /\ UNCHANGED <<location, inflight, received, rejection, unauthorized>>
  /\ UNCHANGED exceptAuth

\* request r is answered with a failure: the response interceptor, then the callers
Fails(r, error) ==
  LET after == responseInterceptor(error)
  IN /\ authToken' = after.authToken
     /\ storage' = after.storage
     /\ location' = after.location
     /\ rejection' = after.rejection
     /\ received' = error
     /\ lastSet' = IF Status(error) = 401 THEN Null ELSE lastSet
     /\ unauthorized' = (unauthorized \/ Status(error) = 401)
     /\ delivered' =
          IF r.kind = "login"
            THEN ThroughLayers(LoginLayers, "login", <<Credentials("password")>>,
                               Rejected(after.rejection))
            ELSE Rejected(after.rejection)

\* request r is answered with a body: response.data goes back to the caller;
\* login parses it, stores the token and sets it
Succeeds(r, data) ==
  /\ received' = NoFailure
  /\ rejection' = Undefined
  /\ UNCHANGED location
  /\ IF r.kind = "login"
       THEN IF "token" \in DOMAIN data.fields
              THEN /\ storage' = data.fields["token"]
                   /\ authToken' = setAuthToken(data.fields["token"])
                   /\ lastSet' = data.fields["token"]
                   /\ unauthorized' = FALSE
                   /\ delivered' = ThroughLayers(LoginLayers, "login",
                                     <<Credentials("password")>>, Resolved(data))
              ELSE /\ delivered' = ThroughLayers(LoginLayers, "login",
                                     <<Credentials("password")>>,
                                     Rejected(ZodError(<<Issue("token", "Required")>>)))
                   /\ UNCHANGED <<storage, authToken, lastSet, unauthorized>>
       ELSE /\ delivered' = Resolved(data)
            /\ UNCHANGED <<storage, authToken, lastSet, unauthorized>>

Responds(r, answer) ==
  /\ BagIn(r, inflight)
  /\ inflight' = inflight (-) SetToBag({r})
  /\ IF answer.ok THEN Succeeds(r, answer.data) ELSE Fails(r, answer.error)
  /\ UNCHANGED exceptAuth

\* the navigation started by `window.location.href = '/login'` completes: the
\* page's modules are evaluated afresh, localStorage stays
PageLoads ==
  /\ location = "/login"
  /\ authToken' = Null
  /\ lastSet' = Null
  /\ location' = "/"
  /\ inflight' = EmptyBag
  /\ received' = NoFailure
  /\ rejection' = Undefined
  /\ delivered' = Pending
  /\ UNCHANGED <<storage, unauthorized>>
  /\ UNCHANGED exceptAuth

AuthInit ==
  /\ WrapperIdle
  /\ DecoratorIdle
  /\ ConcIdle
  /\ AuthIdle
  /\ MockIdle
  /\ AtomIdle
  /\ NotificationIdle

AuthNext ==
  \/ \E token \in Tokens : SetAuthTokenCall(token)
  \/ \E headers \in BOOLEAN : GetCall(headers)
  \/ \E valid \in BOOLEAN, headers \in BOOLEAN : LoginCall(valid, headers)
  \/ LogoutCall
  \/ \E r \in Requests, answer \in Answers : Responds(r, answer)
  \/ PageLoads

AuthSpec == AuthInit /\ [][AuthNext]_vars

(***************************************************************************)
(* The mock products server.  Product objects live in a heap, the arrays   *)
(* hold references to them, so that a handler writing into an object is    *)
(* told apart from one that puts a new object into the array.  Every       *)
(* handler runs to its end before the next request is taken.               *)
(***************************************************************************)
MaxRequests == 3
MaxClock == 1
Randoms == {0, 1}

\* `prod-${timestamp}-${random}`
generateId(timestamp, random) == "prod-" \o ToString(timestamp) \o "-" \o ToString(random)

\* new Date().toISOString()
getCurrentTimestamp == Str("T" \o ToString(now))

Range(seq) == { seq[i] : i \in 1..Len(seq) }

\* the objects nothing refers to any more are gone
Collect(h, ps) == [r \in Range(productsData) \cup Range(ps) |-> h[r]]

NewRef(h) == CHOOSE r \in 1..(Cardinality(DOMAIN h) + 1) : r \notin DOMAIN h

\* products.findIndex(p => p.id === id), counted from 1; 0 when there is none
findIndex(h, ps, id) ==
  IF \E i \in 1..Len(ps) : h[ps[i]]["id"] = Str(id)
    THEN CHOOSE i \in 1..Len(ps) :
           /\ h[ps[i]]["id"] = Str(id)
           /\ \A j \in 1..(i - 1) : h[ps[j]]["id"] # Str(id)
    ELSE 0

\* !v
Falsy(v) == v \in {Undefined, Null, Str(""), Num(0)}

Field(body, name) == IF name \in DOMAIN body THEN body[name] ELSE Undefined

parseFloat(v) == IF v.t = "number" THEN v ELSE Str("NaN")

\* if (p.price !== undefined) p.price = parseFloat(p.price)
EnsureTypes(object) ==
  IF "price" \in DOMAIN object /\ object["price"] # Undefined
    THEN [object EXCEPT !["price"] = parseFloat(@)]
    ELSE object

\* variant: the new field values are written into the object the array holds
AssignAt_InPlace(h, ps, index, object) ==
  [heap |-> [h EXCEPT ![ps[index]] = object], products |-> ps]

\* products[index] = { ... }: a new object takes the place in the array
AssignAt(h, ps, index, object) ==
  LET r == NewRef(h)
  IN [heap |-> h @@ (r :> object), products |-> [ps EXCEPT ![index] = r]]

\* products.splice(index, 1)
Splice(ps, index) == SubSeq(ps, 1, index - 1) \o SubSeq(ps, index + 1, Len(ps))

NotFound(handler, id) ==
  [handler |-> handler, status |-> 404,
   body |-> Obj([k \in {"error", "id"} |->
                   IF k = "error" THEN Str("Product not found") ELSE Str(id)])]

BadRequest(handler, error) ==
  [handler |-> handler, status |-> 400, body |-> Obj([k \in {"error"} |-> Str(error)])]

Ok(handler, status, body) == [handler |-> handler, status |-> status, body |-> body]

\* the products in the store, as values
Store == [i \in 1..Len(products) |-> heap[products[i]]]
\* the data loaded from products.json, as values
Loaded == [i \in 1..Len(productsData) |-> LoadedHeap[productsData[i]]]

\* what a handler leaves: the store and the response
Handled(h, ps, r) ==
  /\ served < MaxRequests
  /\ served' = served + 1
  /\ changed' = (Store # Loaded)
  /\ heap' = Collect(h, ps)
  /\ products' = ps
  /\ response' = r
  /\ UNCHANGED now
  /\ UNCHANGED exceptMock

\* time passes between requests
Tick ==
  /\ now < MaxClock
  /\ now' = now + 1
  /\ UNCHANGED <<heap, products, served, response, changed>>
  /\ UNCHANGED exceptMock

\* GET /products/:id
getProductById(id) ==
  LET index == findIndex(heap, products, id)
  IN IF index = 0
       THEN Handled(heap, products, NotFound("getProductById", id))
       ELSE Handled(heap, products, Ok("getProductById", 200, Obj(heap[products[index]])))

\* POST /products
createProduct(body, random) ==
  IF Falsy(Field(body, "name")) \/ Falsy(Field(body, "price")) \/ Falsy(Field(body, "category"))
    THEN Handled(heap, products,
                 BadRequest("createProduct",
                            "Missing required fields: name, price, and category are required"))
    ELSE LET newProduct ==
               [k \in {"id", "name", "price", "category", "createdAt", "updatedAt"} |->
                  CASE k = "id" -> Str(generateId(now, random))
                    [] k = "name" -> body["name"]
                    [] k = "price" -> parseFloat(body["price"])
                    [] k = "category" -> body["category"]
                    [] k = "createdAt" -> getCurrentTimestamp
                    [] k = "updatedAt" -> getCurrentTimestamp]
             r == NewRef(heap)
         IN Handled(heap @@ (r :> newProduct), Append(products, r),
                    Ok("createProduct", 201, Obj(newProduct)))

\* PUT /products/:id
updateProduct(id, body) ==
  LET index == findIndex(heap, products, id)
  IN IF index = 0
       THEN Handled(heap, products, NotFound("updateProduct", id))
       ELSE LET existingProduct == heap[products[index]]
                updatedProduct ==
                  EnsureTypes(Spread(Spread(existingProduct, body),
                    [k \in {"id", "createdAt", "updatedAt"} |->
                       IF k = "updatedAt" THEN getCurrentTimestamp ELSE existingProduct[k]]))
                after == AssignAt(heap, products, index, updatedProduct)
            IN Handled(after.heap, after.products,
                       Ok("updateProduct", 200, Obj(updatedProduct)))

\* variant: id and createdAt are not removed from the patch
patchProduct_KeepsId(id, body) ==
  LET index == findIndex(heap, products, id)
  IN IF index = 0
       THEN Handled(heap, products, NotFound("patchProduct", id))
       ELSE LET existingProduct == heap[products[index]]
                patchedProduct ==
                  EnsureTypes(Spread(Spread(existingProduct, body),
                    [k \in {"updatedAt"} |-> getCurrentTimestamp]))
                after == AssignAt(heap, products, index, patchedProduct)
            IN Handled(after.heap, after.products,
                       Ok("patchProduct", 200, Obj(patchedProduct)))

\* PATCH /products/:id
patchProduct(id, body) ==
  LET index == findIndex(heap, products, id)
  IN IF index = 0
       THEN Handled(heap, products, NotFound("patchProduct", id))
       ELSE LET existingProduct == heap[products[index]]
                patchData == [k \in DOMAIN body \ {"id", "createdAt"} |-> body[k]]
                patchedProduct ==
                  EnsureTypes(Spread(Spread(existingProduct, patchData),
                    [k \in {"updatedAt"} |-> getCurrentTimestamp]))
                after == AssignAt(heap, products, index, patchedProduct)
            IN Handled(after.heap, after.products,
                       Ok("patchProduct", 200, Obj(patchedProduct)))

\* DELETE /products/:id
deleteProduct(id) ==
  LET index == findIndex(heap, products, id)
  IN IF index = 0
       THEN Handled(heap, products, NotFound("deleteProduct", id))
       ELSE Handled(heap, Splice(products, index),
                    Ok("deleteProduct", 200,
                       Obj([k \in {"deleted"} |-> Obj(heap[products[index]])])))

\* ids.forEach of case 'delete'
RECURSIVE BulkDelete(_, _, _, _, _)
BulkDelete(h, ps, ids, success, failed) ==
  IF ids = <<>> THEN [heap |-> h, products |-> ps, success |-> success, failed |-> failed]
  ELSE LET index == findIndex(h, ps, Head(ids))
       IN IF index # 0
            THEN BulkDelete(h, Splice(ps, index), Tail(ids), Append(success, Head(ids)), failed)
            ELSE BulkDelete(h, ps, Tail(ids), success, Append(failed, Head(ids)))

\* ids.forEach of case 'update'
RECURSIVE BulkUpdate(_, _, _, _, _, _)
BulkUpdate(h, ps, ids, updates, success, failed) ==
  IF ids = <<>> THEN [heap |-> h, products |-> ps, success |-> success, failed |-> failed]
  ELSE LET index == findIndex(h, ps, Head(ids))
       IN IF index # 0
            THEN LET existing == h[ps[index]]
                     after == AssignAt(h, ps, index,
                                Spread(Spread(existing, updates),
                                  [k \in {"id", "createdAt", "updatedAt"} |->
                                     IF k = "updatedAt" THEN getCurrentTimestamp
                                     ELSE existing[k]]))
                 IN BulkUpdate(after.heap, after.products, Tail(ids), updates,
                               Append(success, Head(ids)), failed)
            ELSE BulkUpdate(h, ps, Tail(ids), updates, success, Append(failed, Head(ids)))

BulkResults(done) ==
  Obj([k \in {"success", "failed"} |->
         IF k = "success" THEN Arr(done.success) ELSE Arr(done.failed)])

\* POST /products/bulk
bulkOperations(action, ids, updates) ==
  IF action = "" \/ ids.t # "array"
    THEN Handled(heap, products,
                 BadRequest("bulkOperations", "Invalid request: action and ids array are required"))
  ELSE IF action = "delete"
    THEN LET done == BulkDelete(heap, products, ids.elems, <<>>, <<>>)
         IN Handled(done.heap, done.products, Ok("bulkOperations", 200, BulkResults(done)))
  ELSE IF action = "update"
    THEN IF updates = Undefined
           THEN Handled(heap, products,
                        BadRequest("bulkOperations", "Updates object required for bulk update"))
           ELSE LET done == BulkUpdate(heap, products, ids.elems, updates.fields, <<>>, <<>>)
                IN Handled(done.heap, done.products,
                           Ok("bulkOperations", 200, BulkResults(done)))
  ELSE Handled(heap, products, BadRequest("bulkOperations", "Unknown action: " \o action))

\* variant: reset keeps the array and drops what was appended to it
resetProducts_Truncates ==
  LET ps == SubSeq(products, 1, IF Len(products) < Len(productsData)
                                  THEN Len(products) ELSE Len(productsData))
  IN /\ Handled(heap, ps, Ok("resetProducts", 200, Obj([k \in {"count"} |-> Num(Len(ps))])))
     /\ Len(products') = Len(ps)

\* GET /products/reset: products = [...productsData.products]
resetProducts ==
  LET ps == productsData
  IN /\ Handled(heap, ps, Ok("resetProducts", 200, Obj([k \in {"count"} |-> Num(Len(ps))])))
     /\ Len(products') = Len(productsData)   \* count: products.length

\* the ids requests name: two loaded products, one that was never there, one generated
RequestIds == {"prod-001", "prod-002", "prod-404", generateId(0, 0)}

ProductBody(name, price, category) ==
  [k \in {"name", "price", "category"} |->
     CASE k = "name" -> name [] k = "price" -> price [] k = "category" -> category]

CreateBodies ==
  { ProductBody(Str("Desk"), Num(120), Str("office")),
    ProductBody(Str("Sample"), Num(0), Str("office")),
    [k \in {"price", "category"} |-> IF k = "price" THEN Num(5) ELSE Str("office")] }

UpdateBodies ==
  { [k \in {"name", "price"} |-> IF k = "name" THEN Str("Renamed") ELSE Num(5)],
    [k \in {"id", "createdAt"} |-> IF k = "id" THEN Str("prod-002") ELSE Str("1999-01-01")] }

BulkRequests ==
  { [action |-> "delete", ids |-> Arr(<<"prod-001", "prod-404">>), updates |-> Undefined],
    [action |-> "delete", ids |-> Arr(<<"prod-002", "prod-002">>), updates |-> Undefined],
    [action |-> "delete", ids |-> Arr(<<generateId(0, 0)>>), updates |-> Undefined],
    [action |-> "update", ids |-> Arr(<<"prod-001", "prod-404">>),
     updates |-> Obj([k \in {"name"} |-> Str("Bulk")])],
    [action |-> "update", ids |-> Arr(<<"prod-001">>), updates |-> Undefined],
    [action |-> "archive", ids |-> Arr(<<"prod-001">>), updates |-> Undefined],
    [action |-> "", ids |-> Arr(<<"prod-001">>), updates |-> Undefined],
    [action |-> "delete", ids |-> Undefined, updates |-> Undefined] }

MockInit ==
  /\ WrapperIdle
  /\ DecoratorIdle
  /\ ConcIdle
  /\ AuthIdle
  /\ MockIdle
  /\ AtomIdle
  /\ NotificationIdle

MockNext ==
  \/ Tick
  \/ \E id \in RequestIds : getProductById(id)
  \/ \E body \in CreateBodies, random \in Randoms : createProduct(body, random)
  \/ \E id \in RequestIds, body \in UpdateBodies : updateProduct(id, body)
  \/ \E id \in RequestIds, body \in UpdateBodies : patchProduct(id, body)
  \/ \E id \in RequestIds : deleteProduct(id)
  \/ \E b \in BulkRequests : bulkOperations(b.action, b.ids, b.updates)
  \/ resetProducts

MockSpec == MockInit /\ [][MockNext]_vars

(***************************************************************************)
(* The auth atom.  The application logs in and out through the atom, which *)
(* calls AuthService and records the outcome in its store; other requests  *)
(* go through the ApiClient as before.  The continuation of an await runs  *)
(* in the task that settled the promise, so a login is two steps (the call *)
(* and the answer) and a logout is one.                                    *)
(***************************************************************************)
\* error.message as one string
RECURSIVE Text(_)
Text(message) == IF message = <<>> THEN "" ELSE Head(message) \o Text(Tail(message))

\* the catch block of login: error instanceof Error ? error.message : 'Login failed'
LoginFailed(state, error) ==
  [state EXCEPT !.isLoading = FALSE,
                !.error = IF InstanceofError(error) THEN Str(Text(error.message))
                          ELSE Str("Login failed")]

\* the store after authService.login(credentials) resolved
LoggedIn(credentials, loginResponse) ==
  [user |-> Obj([k \in {"username"} |-> credentials.fields["username"]]),
   token |-> loginResponse.fields["token"],
   isAuthenticated |-> TRUE, isLoading |-> FALSE, error |-> Null]

AtomAnswers ==
  { a \in Answers :
      IF a.ok THEN a.data = LoginResponse(Str("t1"))
      ELSE Status(a.error) = 401 \/ (a.error.response = Undefined /\ a.error.request) }

\* authStateAtom.login(credentials), up to `await authService.login(credentials)`;
\* credentials the schema refuses are rejected before anything is sent
AtomLogin(valid) ==
  /\ BagCardinality(inflight) < MaxInFlight
  /\ IF valid
       THEN /\ Send(Config("login", TRUE), <<Credentials("password")>>)
            /\ store' = [store EXCEPT !.isLoading = TRUE, !.error = Null]
       ELSE /\ delivered' = ThroughLayers(LoginLayers, "login", <<Obj(EmptyFields)>>,
                              Rejected(ZodError(<<Issue("username", "Required")>>)))
            /\ UNCHANGED inflight
            /\ store' = LoginFailed([store EXCEPT !.isLoading = TRUE, !.error = Null],
                                    delivered'.error)
  /\ noLoginSince' = FALSE
  /\ UNCHANGED <<authToken, storage, location, received, rejection, lastSet, unauthorized>>
  /\ UNCHANGED exceptAtom

\* apiClient.get(url) from any other part of the application
AtomGet ==
  /\ BagCardinality(inflight) < MaxInFlight
  /\ Send(Config("get", TRUE), <<>>)
  /\ UNCHANGED <<authToken, storage, location, received, rejection, lastSet, unauthorized>>
  /\ UNCHANGED atomVars
  /\ UNCHANGED exceptAtom

\* request r is answered; for a login the atom's try or catch block follows
AtomResponds(r, answer) ==
  /\ BagIn(r, inflight)
  /\ inflight' = inflight (-) SetToBag({r})
  /\ IF answer.ok THEN Succeeds(r, answer.data) ELSE Fails(r, answer.error)
  /\ store' = IF r.kind # "login" THEN store
              ELSE IF delivered'.status = "resolved"
                THEN LoggedIn(Credentials("password"), delivered'.value)
                ELSE LoginFailed(store, delivered'.error)
  /\ UNCHANGED noLoginSince
  /\ UNCHANGED exceptAtom

\* authStateAtom.logout(): authService.logout(), then the finally block
AtomLogout ==
  /\ storage' = Null
  /\ authToken' = setAuthToken(Null)
  /\ lastSet' = Null
  /\ delivered' = Resolved(Undefined)
  /\ store' = Unauthenticated
  /\ noLoginSince' = TRUE
  /\ UNCHANGED <<location, inflight, received, rejection, unauthorized>>
  /\ UNCHANGED exceptAtom

\* the navigation to /login completes: the atom is created afresh
AtomPageLoads ==
  /\ location = "/login"
  /\ authToken' = Null
  /\ lastSet' = Null
  /\ location' = "/"
  /\ inflight' = EmptyBag
  /\ received' = NoFailure
  /\ rejection' = Undefined
  /\ delivered' = Pending
  /\ store' = Unauthenticated
  /\ noLoginSince' = FALSE
  /\ UNCHANGED <<storage, unauthorized>>
  /\ UNCHANGED exceptAtom

AtomInit ==
  /\ WrapperIdle
  /\ DecoratorIdle
  /\ ConcIdle
  /\ AuthIdle
  /\ MockIdle
  /\ AtomIdle
  /\ NotificationIdle

AtomNext ==
  \/ \E valid \in BOOLEAN : AtomLogin(valid)
  \/ AtomGet
  \/ \E r \in Requests, answer \in AtomAnswers : AtomResponds(r, answer)
  \/ AtomLogout
  \/ AtomPageLoads

AtomSpec == AtomInit /\ [][AtomNext]_vars

(***************************************************************************)
(* The notification atom.  showNotification writes the store and sets a    *)
(* timer; nothing keeps the timer's handle, so a timer once set always     *)
(* runs.  Timers run in the order of their due times, and those due at     *)
(* the same time in the order in which they were set.                      *)
(***************************************************************************)
Timeout == 5000

MaxShows == 3
MaxTime == 7000

\* how long the caller waits between two calls
Waits == {1000, 2000}

\* showNotification's arguments; the type is optional
ShowArgs ==
  {<<"saved">>, <<"saved", "success">>, <<"failed", "error">>}

\* type: NotificationType = 'info'
TypeOf(args) == IF Len(args) >= 2 THEN args[2] ELSE "info"

\* the timer the loop runs next
Earliest(t) ==
  \A u \in timers : t.due < u.due \/ (t.due = u.due /\ t.call <= u.call)

\* store.setState(null), by hideNotification or by the timer of the given call
SetStateNull(by, call) ==
  /\ notification' = Null
  /\ shown' = 0
  /\ removal' = [by |-> by, call |-> call, removed |-> shown]

showNotification(args) ==
  /\ shows < MaxShows
  /\ notification' = [message |-> args[1], type |-> TypeOf(args), isVisible |-> TRUE]
  /\ timers' = timers \cup {[due |-> time + Timeout, call |-> shows + 1]}
  /\ shows' = shows + 1
  /\ shown' = shows + 1
  /\ UNCHANGED <<time, removal>>
  /\ UNCHANGED exceptNotification

hideNotification ==
  /\ SetStateNull("hideNotification", 0)
  /\ UNCHANGED <<timers, time, shows>>
  /\ UNCHANGED exceptNotification

\* the callback given to setTimeout runs
TimerExpires(call) ==
  /\ \E t \in timers :
       /\ t.call = call
       /\ t.due <= time
       /\ Earliest(t)
       /\ timers' = timers \ {t}
  /\ SetStateNull("timer", call)
  /\ UNCHANGED <<time, shows>>
  /\ UNCHANGED exceptNotification

\* time passes, up to the next timer's due time
Wait(d) ==
  /\ time + d <= MaxTime + Timeout
  /\ shows < MaxShows \/ timers # {}
  /\ \A t \in timers : time + d <= t.due
  /\ time' = time + d
  /\ UNCHANGED <<notification, timers, shows, shown, removal>>
  /\ UNCHANGED exceptNotification

\* the calls of showNotification, numbered in their order
Calls == 1..MaxShows

NotificationInit ==
  /\ WrapperIdle
  /\ DecoratorIdle
  /\ ConcIdle
  /\ AuthIdle
  /\ MockIdle
  /\ AtomIdle
  /\ NotificationIdle

NotificationNext ==
  \/ \E args \in ShowArgs : showNotification(args)
  \/ hideNotification
  \/ \E call \in Calls : TimerExpires(call)
  \/ \E d \in Waits : Wait(d)

NotificationSpec == NotificationInit /\ [][NotificationNext]_vars

(***************************************************************************)
(* Properties.                                                             *)
(***************************************************************************)
SensitiveKeys == {"password", "token", "secret", "apiKey", "authorization"}
Marker == [t |-> "string", s |-> "[REDACTED]"]

Failed == outcome.status = "rejected"
FailedNormalized == Failed /\ outcome.error.t = "ApiError"

\* context.arguments of the error now in flight
HasRecordedArgs ==
  /\ FailedNormalized
  /\ outcome.error.details.t = "object"
  /\ "args" \in DOMAIN outcome.error.details.fields
RecordedArgs == outcome.error.details.fields["args"]

\* the last wrapped call was decorated with @HandleError and failed
HandleErrorFailed == frame.wrapper = "HandleError" /\ Failed

\* a step in which a wrapper that normalizes catches an existing ApiError
Rewraps ==
  /\ outcome.status = "rejected"
  /\ outcome.error.t = "ApiError"
  /\ depth' = depth + 1
  /\ frame'.wrapper \in {"HandleError", "withErrorHandling", "handleErrors"}

\* the keys the wrapper of the call puts into its context object
ContextKeys(f) ==
  IF f.wrapper = "HandleError" THEN {"operation", "method", "service", "args"}
  ELSE IF f.wrapper = "withErrorHandling" THEN {"operation", "args"}
  ELSE {"operation"} \cup
       (IF f.additionalContext.t = "object" THEN DOMAIN f.additionalContext.fields ELSE {})

\* C1: whenever a wrapped call resolves, it resolves to exactly the value the
\* underlying operation resolved to, and no error object has been constructed.
C1_SuccessPassesThrough ==
  (depth > 0 /\ outcome.status = "resolved") =>
     (outcome.value = underlying /\ constructed = 0)

C1_Witness ==
  /\ depth = 2
  /\ outcome.status = "resolved"
  /\ outcome.value.t = "array"
  /\ frame.wrapper = "HandleError"

\* C2: whatever the underlying operation throws, every wrapped call, a method
\* decorated with @CustomErrorMessage included, fails with an ApiError and never
\* with the raw thrown value.
C2_AlwaysNormalized ==
  (depth > 0 /\ Failed) => outcome.error.t = "ApiError"

\* C3: when a call decorated with @HandleError fails (directly or by re-wrapping
\* the failure of a nested wrapped call), the arguments recorded in the error's
\* context are the call's arguments with the value of every top-level sensitive
\* key of a mapping argument replaced by "[REDACTED]" and all other keys unchanged.
C3_TopLevelRedaction ==
  HandleErrorFailed =>
    /\ HasRecordedArgs
    /\ RecordedArgs.t = "array"
    /\ Len(RecordedArgs.elems) = Len(frame.args)
    /\ \A i \in 1..Len(frame.args) :
         frame.args[i].t = "object" =>
           /\ RecordedArgs.elems[i].t = "object"
           /\ DOMAIN RecordedArgs.elems[i].fields = DOMAIN frame.args[i].fields
           /\ \A k \in DOMAIN frame.args[i].fields :
                RecordedArgs.elems[i].fields[k] =
                  IF k \in SensitiveKeys THEN Marker ELSE frame.args[i].fields[k]

C3_Witness ==
  /\ depth = 2
  /\ HandleErrorFailed
  /\ outcome.error.message[1] = "Failed in "
  /\ frame.args = <<[t |-> "object",
                     fields |-> [k \in {"username", "apiKey"} |->
                        [t |-> "string", s |-> IF k = "apiKey" THEN "secret123" ELSE "a"]]]>>
  /\ RecordedArgs.elems[1].fields["apiKey"] = Marker
  /\ RecordedArgs.elems[1].fields["username"].s = "a"

\* C4: a sensitive key inside a mapping that is itself a value of a mapping
\* argument (one level of nesting) is recorded with the redaction marker.
C4_NestedRedaction ==
  HandleErrorFailed =>
    \A i \in 1..Len(frame.args) :
      frame.args[i].t = "object" =>
        \A k \in DOMAIN frame.args[i].fields :
          frame.args[i].fields[k].t = "object" =>
            \A j \in DOMAIN frame.args[i].fields[k].fields \cap SensitiveKeys :
              /\ HasRecordedArgs
              /\ RecordedArgs.elems[i].fields[k].t = "object"
              /\ RecordedArgs.elems[i].fields[k].fields[j] = Marker

\* C5: an error produced by withErrorHandling / createServiceWrapper /
\* handleErrors never records the unredacted value of a sensitive key of one of
\* the call's arguments.
C5_WrapperFunctionsRedact ==
  (frame.wrapper \in {"withErrorHandling", "handleErrors"} /\ HasRecordedArgs) =>
    \A i \in 1..Len(frame.args) :
      frame.args[i].t = "object" =>
        \A k \in DOMAIN frame.args[i].fields \cap SensitiveKeys :
          \A e \in 1..Len(RecordedArgs.elems) :
            (RecordedArgs.elems[e].t = "object" /\ k \in DOMAIN RecordedArgs.elems[e].fields)
              => RecordedArgs.elems[e].fields[k] # frame.args[i].fields[k]

\* C6: after a wrapped call has settled, every argument object the caller
\* passed has exactly the keys and values it had when it was passed.
C6_ArgsNotMutated ==
  depth > 0 => callerArgs = frame.args

C6_Witness ==
  /\ HandleErrorFailed
  /\ HasRecordedArgs
  /\ Len(frame.args) = 1
  /\ frame.args[1].t = "object"
  /\ "secret" \in DOMAIN frame.args[1].fields
  /\ RecordedArgs.elems[1].fields["secret"] = Marker
  /\ callerArgs[1].fields["secret"].s = "secret123"

\* C7: a positional argument that is a string, a number, null or an array is
\* recorded in the error context as the same value of the same shape.
C7_NonMappingsUnchanged ==
  HandleErrorFailed =>
    \A i \in 1..Len(frame.args) :
      frame.args[i].t \in {"string", "number", "null", "array"} =>
        (HasRecordedArgs /\ RecordedArgs.elems[i] = frame.args[i])

\* C8: re-wrapping an ApiError keeps its code and statusCode and composes the
\* message "Failed in <operation>: <previous message>", in every wrapper variant.
C8_RewrapMessage ==
  [][Rewraps =>
       /\ outcome'.error.t = "ApiError"
       /\ outcome'.error.code = outcome.error.code
       /\ outcome'.error.statusCode = outcome.error.statusCode
       /\ outcome'.error.message =
            <<"Failed in ", frame'.operation, ": ">> \o outcome.error.message]_vars

\* C9: re-wrapping an ApiError gives an error whose context has every key of
\* the inner error's context, and every inner key the outer wrapper does not
\* itself set keeps the inner value.
C9_ContextSuperset ==
  [][Rewraps =>
       LET inner == IF outcome.error.details.t = "object"
                      THEN outcome.error.details.fields ELSE EmptyFields
           outer == outcome'.error.details.fields
       IN /\ DOMAIN inner \subseteq DOMAIN outer
          /\ \A k \in DOMAIN inner \ ContextKeys(frame') : outer[k] = inner[k]]_vars

C9_Witness ==
  /\ depth = 2
  /\ FailedNormalized
  /\ frame.wrapper = "handleErrors"
  /\ outcome.error.message[1] = "Failed to "
  /\ frame.additionalContext.t = "undefined"
  /\ {"zodError", "method", "service", "args"} \subseteq DOMAIN outcome.error.details.fields

\* C10: when a wrapper re-wraps the ApiError of a nested wrapped call, every
\* value of the inner error's context (operation, method, service, recorded
\* arguments) and its message are still found in the outer error.
C10_NoInformationLost ==
  [][(Rewraps /\ depth > 0) =>
       LET inner == IF outcome.error.details.t = "object"
                      THEN outcome.error.details.fields ELSE EmptyFields
           outer == outcome'.error.details.fields
           n == Len(outcome'.error.message)
           m == Len(outcome.error.message)
       IN /\ m <= n
          /\ SubSeq(outcome'.error.message, n - m + 1, n) = outcome.error.message
          /\ \A k \in DOMAIN inner :
               \/ \E j \in DOMAIN outer : outer[j] = inner[k]
               \/ /\ inner[k].t = "string"
                  /\ \E p \in 1..n : outcome'.error.message[p] = inner[k].s]_vars

\* a step in which a wrapper that normalizes catches what its original method threw
Normalizes ==
  /\ outcome.status = "rejected"
  /\ depth' = depth + 1
  /\ frame'.wrapper \in {"HandleError", "withErrorHandling", "handleErrors"}

ConfiguredName(f) ==
  IF f.additionalContext.s # "" THEN f.additionalContext.s
  ELSE f.service \o "." \o f.method

C13_RawValueKept ==
  [][(Normalizes /\ outcome.error.t \notin {"ApiError", "ZodError", "Error"}) =>
       /\ outcome'.error.t = "ApiError"
       /\ outcome'.error.code = "UNKNOWN_ERROR"
       /\ outcome'.error.statusCode = 0
       /\ "error" \in DOMAIN outcome'.error.details.fields
       /\ outcome'.error.details.fields["error"] = outcome.error]_vars

\* C14: the failure a wrapper caught (raw error or inner ApiError) is reachable
\* from the ApiError the wrapper throws: as its cause or as a value of its context.
C14_CausePreserved ==
  [][Normalizes =>
       /\ outcome'.error.t = "ApiError"
       /\ \/ \E k \in DOMAIN outcome'.error.details.fields :
               outcome'.error.details.fields[k] = outcome.error
          \/ /\ "cause" \in DOMAIN outcome'.error
             /\ outcome'.error["cause"] = outcome.error]_vars

\* the method called last is synchronous as written and carries no @HandleError
CalledPlainSync ==
  /\ lastCall.member # ""
  /\ ~members[lastCall.member].async
  /\ ~members[lastCall.member].promise
  /\ \A i \in 1..Len(layers[lastCall.member]) : layers[lastCall.member][i].by # "HandleError"

\* C15: @ServiceErrorHandler wraps every method that is asynchronous and leaves
\* every synchronous method untouched: a call of a synchronous method returns its
\* plain value or throws its original error synchronously, whatever its body
\* contains, and a failing call of an asynchronous method rejects with an ApiError.
C15_AutoWrapOnlyAsync ==
  /\ CalledPlainSync => lastCall.result = lastCall.body
  /\ (lastCall.member # "" /\ members[lastCall.member].promise
        /\ lastCall.body.status = "rejected") =>
       (lastCall.result.status = "rejected" /\ lastCall.result.error.t = "ApiError")

\* what call i must end with, told from its own arguments and its own settlement
OwnResult(i) ==
  IF calls[i].awaited.status = "resolved"
    THEN calls[i].outcome = Resolved(calls[i].awaited.value)
    ELSE /\ calls[i].outcome.status = "rejected"
         /\ calls[i].outcome.error.t = "ApiError"
         /\ calls[i].outcome.error.message =
              <<"Error in ", "ProductService.getProductById", ": ">>
                \o calls[i].awaited.error.message
         /\ calls[i].outcome.error.details.fields["args"]
              = Arr(sanitizeArgs(calls[i].args).result)

\* C16: two calls of the same wrapped method with different arguments, in flight
\* together, do not interfere under any interleaving: a call that succeeds
\* resolves to its own underlying result and a call that fails rejects with an
\* ApiError recording its own (sanitized) arguments and its own failure.
C16_NoInterference ==
  \A i \in CallIds : calls[i].pc = "done" => OwnResult(i)

\* call 2 was made first and has succeeded but not yet resumed, while call 1,
\* made after it, has already failed and finished
C16_Witness ==
  /\ invoked = <<2, 1>>
  /\ calls[2].pc = "resumable" /\ calls[2].awaited.status = "resolved"
  /\ calls[1].pc = "done" /\ calls[1].outcome.status = "rejected"

\* the step sends a request
Sent == BagCardinality(inflight') = BagCardinality(inflight) + 1
Newest == CHOOSE r \in BagToSet(inflight') : CopiesIn(r, inflight') > CopiesIn(r, inflight)

\* C17: handleApiError classifies by first match: a failure with a response gives
\* an error with that response's status that is not classified UNKNOWN_ERROR; a
\* failure with a request and no response gives NETWORK_ERROR with statusCode 0;
\* anything else gives UNKNOWN_ERROR with statusCode 0; statusCode is 0 exactly
\* when no response was received.
C17_Classification ==
  rejection # Undefined =>
    /\ rejection.t = "ApiError"
    /\ IF received.response.t = "object"
         THEN /\ rejection.statusCode = Status(received)
              /\ rejection.code # "UNKNOWN_ERROR"
         ELSE IF received.request
           THEN rejection.code = "NETWORK_ERROR" /\ rejection.statusCode = 0
           ELSE rejection.code = "UNKNOWN_ERROR" /\ rejection.statusCode = 0
    /\ (rejection.statusCode = 0) <=> (received.response.t # "object")

\* the step is the handling of a response with status 401
Received401 ==
  /\ BagCardinality(inflight') = BagCardinality(inflight) - 1
  /\ Status(received') = 401

\* C18: when a response with status 401 is received, the in-memory token is null
\* and the stored 'auth_token' is removed when the rejection reaches the caller,
\* the caller gets an ApiError with statusCode 401, and no request sent afterwards
\* carries an Authorization header until a non-null token is set.
C18_UnauthorizedClearsToken ==
  [][ /\ Received401 =>
           /\ authToken' = Null
           /\ storage' = Null
           /\ delivered'.status = "rejected"
           /\ delivered'.error.t = "ApiError"
           /\ delivered'.error.statusCode = 401
      /\ (unauthorized /\ Sent) => Newest.authorization = Undefined ]_vars

\* a 401 was handled last, the token is gone, and of the requests in flight one
\* still carries the token that was current before and one carries none
C18_Witness ==
  /\ unauthorized
  /\ Status(received) = 401
  /\ authToken = Null /\ storage = Null /\ location = "/login"
  /\ delivered.status = "rejected" /\ delivered.error.t = "ApiError"
  /\ delivered.error.statusCode = 401
  /\ BagIn([kind |-> "get", headers |-> TRUE, authorization |-> Str("Bearer t1")], inflight)
  /\ BagIn([kind |-> "get", headers |-> TRUE, authorization |-> Undefined], inflight)

\* C19: after any sequence of setAuthToken, login, logout and 401 responses, the
\* current token is the value set most recently, and a request that is sent
\* carries Authorization: Bearer <t> if and only if that value is a non-null,
\* non-empty t.
C19_BearerIffTokenSet ==
  [][ /\ authToken' = lastSet'
      /\ Sent => Newest.authorization =
                   (IF lastSet # Null /\ lastSet.s # ""
                      THEN Str("Bearer " \o lastSet.s) ELSE Undefined) ]_vars

\* a login stored t1, t2 was set afterwards, and a request carrying t2 is in flight
\* next to a login request sent without a token
C19_Witness ==
  /\ lastSet = Str("t2")
  /\ storage = Str("t1")
  /\ BagIn([kind |-> "get", headers |-> TRUE, authorization |-> Str("Bearer t2")], inflight)
  /\ BagIn([kind |-> "login", headers |-> TRUE, authorization |-> Undefined], inflight)

\* C20: after any sequence of create, PUT, PATCH, DELETE and bulk requests,
\* GET /products/reset leaves the store holding exactly the data loaded at the
\* start (the same products with the same field values, the same number of
\* them), and the count it reports is the size of the store.
C20_ResetRestores ==
  response.handler = "resetProducts" =>
    /\ Store = Loaded
    /\ response.status = 200
    /\ response.body.fields["count"] = Num(Len(products))

\* a reset was the last of the requests and found the store changed
C20_Witness ==
  /\ response.handler = "resetProducts"
  /\ changed
  /\ served = MaxRequests

\* the ids of the products in the store, in order
StoreIds == [i \in 1..Len(products) |-> heap[products[i]]["id"].s]
InStore(id) == \E i \in 1..Len(products) : StoreIds[i] = id

\* the step handles GET, PUT, PATCH or DELETE /products/:id
OnProduct(id) ==
  \/ getProductById(id)
  \/ deleteProduct(id)
  \/ \E body \in UpdateBodies : updateProduct(id, body) \/ patchProduct(id, body)

\* C21: GET, PUT, PATCH and DELETE /products/:id with an id that is not in the
\* store respond 404 and leave the store unchanged; after a successful DELETE of
\* an id no product with that id is in the store, so that later requests for it
\* respond 404.
C21_NotFound ==
  [][ \A id \in RequestIds :
        /\ (~InStore(id) /\ OnProduct(id)) => (response'.status = 404 /\ Store' = Store)
        /\ (InStore(id) /\ deleteProduct(id)) => (response'.status = 200 /\ ~InStore(id)') ]_vars

\* the required fields of POST /products
RequiredFields == {"name", "price", "category"}

\* C22: POST /products responds 201 and appends exactly one product, all others
\* unchanged, when name, price and category are all supplied, and responds 400
\* leaving the store unchanged when one of them is not supplied; a price of 0
\* counts as supplied.
C22_CreateRequiresFields ==
  [][ \A body \in CreateBodies, random \in Randoms :
        createProduct(body, random) =>
          IF RequiredFields \subseteq DOMAIN body
            THEN /\ response'.status = 201
                 /\ Len(Store') = Len(Store) + 1
                 /\ SubSeq(Store', 1, Len(Store)) = Store
            ELSE /\ response'.status = 400
                 /\ Store' = Store ]_vars

\* the step handles a PUT, a PATCH or a bulk update
Updates ==
  /\ served' = served + 1
  /\ \/ response'.handler \in {"updateProduct", "patchProduct"}
     \/ /\ response'.handler = "bulkOperations"
        /\ \E b \in BulkRequests :
             b.action = "update" /\ bulkOperations(b.action, b.ids, b.updates)

\* C23: PUT, PATCH and bulk update never change a product's identity: whatever
\* the body, every product keeps its id and createdAt and the number of products
\* stays the same.
C23_IdentityPreserved ==
  [][ Updates =>
        /\ Len(Store') = Len(Store)
        /\ \A i \in 1..Len(Store) :
             /\ Store'[i]["id"] = Store[i]["id"]
             /\ Store'[i]["createdAt"] = Store[i]["createdAt"] ]_vars

\* a PATCH whose body named another id and createdAt was applied to prod-001
C23_Witness ==
  /\ response.handler = "patchProduct"
  /\ response.status = 200
  /\ response.body.fields["id"] = Str("prod-001")
  /\ response.body.fields["name"] = Str("Atlas")
  /\ response.body.fields["createdAt"] = Str("2024-01-01")
  /\ response.body.fields["updatedAt"] = getCurrentTimestamp

\* how many products in the store carry the id
CountId(id) == Cardinality({ i \in 1..Len(products) : StoreIds[i] = id })
\* how many of the first n entries of ids are the id
Earlier(ids, n, id) == Cardinality({ k \in 1..n : ids[k] = id })

ValidBulk(b) ==
  /\ b.action \in {"delete", "update"}
  /\ b.ids.t = "array"
  /\ b.action = "update" => b.updates # Undefined

\* entry k of ids finds a product with its id in the store when its turn comes:
\* a bulk delete has by then removed one product for each earlier equal entry
FoundAtTurn(b, k) ==
  IF b.action = "delete"
    THEN CountId(b.ids.elems[k]) > Earlier(b.ids.elems, k - 1, b.ids.elems[k])
    ELSE InStore(b.ids.elems[k])

\* the entries of ids reported in success resp. failed, in order
Reported(b, found) ==
  LET ks == { k \in 1..Len(b.ids.elems) : FoundAtTurn(b, k) = found }
      RECURSIVE InOrder(_)
      InOrder(n) == IF n = 0 THEN <<>>
                    ELSE IF n \in ks THEN Append(InOrder(n - 1), b.ids.elems[n])
                    ELSE InOrder(n - 1)
  IN InOrder(Len(b.ids.elems))

\* C25: POST /products/bulk with a valid request reports every entry of ids in
\* exactly one of success and failed, in success exactly when a product with that
\* id was in the store at its turn, and after a bulk delete no product with an id
\* in success remains; a request without action, with ids that are no array, with
\* an unknown action or an update without updates responds 400 and leaves the
\* store unchanged.
C25_BulkReports ==
  [][ \A b \in BulkRequests :
        bulkOperations(b.action, b.ids, b.updates) =>
          IF ValidBulk(b)
            THEN /\ response'.status = 200
                 /\ response'.body.fields["success"] = Arr(Reported(b, TRUE))
                 /\ response'.body.fields["failed"] = Arr(Reported(b, FALSE))
                 /\ b.action = "delete" =>
                      \A k \in 1..Len(b.ids.elems) :
                        FoundAtTurn(b, k) => ~InStore(b.ids.elems[k])'
            ELSE /\ response'.status = 400
                 /\ Store' = Store ]_vars

\* C26: product ids are unique: after any sequence of create, update, patch,
\* delete, bulk and reset requests no two products in the store have the same id.
C26_UniqueIds ==
  \A i, j \in 1..Len(products) : StoreIds[i] = StoreIds[j] => i = j

\* the method called last carries @HandleError and its class @ServiceErrorHandler,
\* and its body failed
CalledDecoratedTwice ==
  /\ lastCall.member # ""
  /\ decorated
  /\ \E i \in 1..Len(layers[lastCall.member]) : layers[lastCall.member][i].by = "HandleError"
  /\ lastCall.body.status \in {"rejected", "thrown"}

\* C24: a failing call of a method of a class that carries both
\* @ServiceErrorHandler and per-method @HandleError is normalized exactly once:
\* the message of the error thrown carries one operation prefix, "Error in
\* <operation>: <message>".
C24_SinglePass ==
  CalledDecoratedTwice =>
    /\ lastCall.result.status = "rejected"
    /\ lastCall.result.error.t = "ApiError"
    /\ lastCall.result.error.message =
         <<"Error in ", layers[lastCall.member][1].operation, ": ">>
           \o lastCall.body.error.message

\* C27: whenever the auth atom reports isAuthenticated with a non-null token, the
\* transport layer's current token is that same token.
C27_AtomAgreesWithTransport ==
  (store.isAuthenticated /\ store.token # Null) => authToken = store.token

LoginsInFlight ==
  { r \in BagToSet(inflight) : r.kind = "login" }

\* C28: isLoading is true exactly in the states in which at least one login call
\* is in flight.
C28_LoadingIffLoginInFlight ==
  store.isLoading <=> (LoginsInFlight # {})

\* C29: once logout has completed, and until a login started after it succeeds,
\* the atom is unauthenticated (user null, token null, isAuthenticated false,
\* error null) and no transport token is installed: a login that was in flight
\* when logout ran changes neither.
C29_LogoutIsFinal ==
  noLoginSince =>
    /\ store.user = Null /\ store.token = Null
    /\ ~store.isAuthenticated /\ store.error = Null
    /\ authToken = Null

\* C30: the store is set to null only by hideNotification or by the timer that
\* the call which showed the notification in the store has set; the timer of
\* an earlier call never removes a notification that a later call has shown.
C30_OwnTimerOnly ==
  (removal.by = "timer" /\ removal.removed # 0) => removal.call = removal.removed

=============================================================================
